---- MODULE Spec2Model ----
(***************************************************************************)
(* A model of src/scraper.py: the LinkedInScraper class (login, the feed   *)
(* scroll loop, post discovery, the per-post loop, _extract_post_data,     *)
(* _extract_media_urls, _extract_comments, close) and the /scrape endpoint *)
(* scrape_linkedin.                                                        *)
(*                                                                         *)
(* Python strings are sequences of one-character strings, so that strip(), *)
(* lower(), "in", filter(str.isdigit, ...) and endswith() are computed as  *)
(* the code computes them.  A Selenium call returns normally or raises;    *)
(* a helper's outcome is a record [exc, value] with exc = "none" on a      *)
(* normal return.                                                          *)
(***************************************************************************)
EXTENDS Integers, Sequences, FiniteSets, TLC

\* ------------------------------------------------------------------------
\* Bounds of the model
\* ------------------------------------------------------------------------
MaxSpans == 2
MaxMedia == 2
MaxCommentElems == 3
MaxCommentsCfg == 3
MaxElems == 2
MaxScrolls == 3
MaxStall == 2

\* Lookups of the load-more control one call may make in the model; the code
\* has no cap (while True, line 281).
MaxLookups == 3

\* ------------------------------------------------------------------------
\* Text
\* ------------------------------------------------------------------------
UPPER == <<"A", "B", "C", "D", "E", "F", "G", "H", "I", "J", "K", "L", "M", "N", "O", "P", "Q", "R", "S", "T", "U", "V", "W", "X", "Y", "Z">>

LOWER == <<"a", "b", "c", "d", "e", "f", "g", "h", "i", "j", "k", "l", "m", "n", "o", "p", "q", "r", "s", "t", "u", "v", "w", "x", "y", "z">>

DIGITS == {"0", "1", "2", "3", "4", "5", "6", "7", "8", "9"}

IsDigit(c) == c \in DIGITS

IsSpace(c) == c \in {" ", "\t", "\n"}

LowerChar(c) ==
    IF \E i \in 1..Len(UPPER) : UPPER[i] = c
    THEN LOWER[CHOOSE i \in 1..Len(UPPER) : UPPER[i] = c]
    ELSE c

\* str.lower()
Lower(s) == [i \in 1..Len(s) |-> LowerChar(s[i])]

RECURSIVE LStrip(_)
LStrip(s) == IF s # <<>> /\ IsSpace(Head(s)) THEN LStrip(Tail(s)) ELSE s

RECURSIVE RStrip(_)
RStrip(s) ==
    IF s # <<>> /\ IsSpace(s[Len(s)]) THEN RStrip(SubSeq(s, 1, Len(s) - 1)) ELSE s

\* str.strip()
Strip(s) == RStrip(LStrip(s))

\* sub in s
Contains(s, sub) ==
    \E i \in 0..(Len(s) - Len(sub)) : SubSeq(s, i + 1, i + Len(sub)) = sub

\* s.endswith(suf)
EndsWith(s, suf) ==
    /\ Len(suf) <= Len(s)
    /\ SubSeq(s, Len(s) - Len(suf) + 1, Len(s)) = suf

ZERO == <<"0">>

\* ''.join(filter(str.isdigit, text)) or "0"
DigitsOrZero(text) ==
    LET d == SelectSeq(text, IsDigit) IN IF d = <<>> THEN ZERO ELSE d

SENTINEL == <<"[", "C", "o", "u", "l", "d", " ", "n", "o", "t", " ", "e", "x", "t", "r", "a", "c", "t", " ", "p", "o", "s", "t", " ", "c", "o", "n", "t", "e", "n", "t", "]">>

PLACEHOLDER_STUB == <<"d", "a", "t", "a", ":", "i", "m", "a", "g", "e", "/", "g", "i", "f", ";", "b", "a", "s", "e", "6", "4">>

KW_COMMENT == <<"c", "o", "m", "m", "e", "n", "t">>

KW_SHARE == <<"s", "h", "a", "r", "e">>

KW_REPOST == <<"r", "e", "p", "o", "s", "t">>

\* ------------------------------------------------------------------------
\* What the page can render (the inputs of the model)
\* ------------------------------------------------------------------------
\* An element lookup or read: the element is absent (NoSuchElementException),
\* present but stale when used (StaleElementReferenceException), or readable.
Absent == [k |-> "absent", v |-> <<>>]

Stale == [k |-> "stale", v |-> <<>>]

Txt(s) == [k |-> "text", v |-> s]

\* get_attribute('src') of an element without the attribute returns None.
NoneAttr == [k |-> "none", v |-> <<>>]

BodyText == <<" ", "H", "e", "l", "l", "o", " ">>

LikesPlain == <<"1", "2">>

LikesSeparated == <<"1", ",", "2", "3", "4">>

SpanComments == <<"3", " ", "c", "o", "m", "m", "e", "n", "t", "s">>

SpanCommentsUpper == <<"1", ",", "2", "0", "4", " ", "C", "o", "m", "m", "e", "n", "t", "s">>

SpanReposts == <<"5", " ", "r", "e", "p", "o", "s", "t", "s">>

SpanCommentsAndShare == <<"2", " ", "c", "o", "m", "m", "e", "n", "t", "s", " ", "1", " ", "s", "h", "a", "r", "e">>

SpanCommentWord == <<"C", "o", "m", "m", "e", "n", "t">>

PlaceholderSrc == <<"d", "a", "t", "a", ":", "i", "m", "a", "g", "e", "/", "g", "i", "f", ";", "b", "a", "s", "e", "6", "4", ",", "R", "0", "l", "G", "O", "D", "l", "h", "A", "Q", "A", "B", "A", "A", "A", "A", "A", "C", "w", "=">>

RealSrc == <<"h", "t", "t", "p", "s", ":", "/", "/", "c", "d", "n", "/", "a", ".", "j", "p", "g">>

CommentA == <<"N", "i", "c", "e">>

CommentB == <<"W", "o", "w">>

CommentLikes == <<"2">>

CommentLikesSeparated == <<"1", ",", "2">>

SeqsUpTo(S, n) == UNION {[1..m -> S] : m \in 0..n}

IMG_CLASSES == <<"feed-shared-image__image", "feed-shared-image__img">>

VIDEO_CLASSES == <<"feed-shared-video__video", "feed-shared-video__player">>

Range(f) == {f[i] : i \in DOMAIN f}

SeeMoreStates == {"absent", "present", "stale"}

BodyStates == {Absent, Stale, Txt(BodyText)}

LikesStates == {Absent, Stale, Txt(LikesPlain), Txt(LikesSeparated), Txt(<<>>)}

SpanStates ==
    {Stale, Txt(SpanComments), Txt(SpanCommentsUpper), Txt(SpanReposts), Txt(SpanCommentWord),
     Txt(SpanCommentsAndShare)}

SrcStates == {NoneAttr, Stale, Txt(PLACEHOLDER_STUB), Txt(PlaceholderSrc), Txt(RealSrc)}

MediaElems ==
    [tag : {"img"}, cls : Range(IMG_CLASSES), src : SrcStates]
        \cup [tag : {"video"}, cls : Range(VIDEO_CLASSES), src : SrcStates]

CommentElems ==
    {[text |-> Absent, like |-> Absent], [text |-> Stale, like |-> Absent]}
        \cup [text : {Txt(CommentA), Txt(CommentB)},
              like : {Absent, Stale, Txt(CommentLikes), Txt(CommentLikesSeparated)}]

ButtonStates == {"absent", "present", "stale"}

\* A post element with nothing but a readable body.
PlainPost ==
    [gone |-> FALSE, see_more |-> "absent", body |-> Txt(BodyText),
     likes |-> Absent, spans |-> <<>>, media |-> <<>>,
     comments_button |-> "absent", comments |-> <<>>]

\* Post elements that vary in the text, like-count and count-span controls.
TextPosts ==
    {[PlainPost EXCEPT !.gone = g, !.see_more = sm, !.body = b, !.likes = l, !.spans = sp] :
        g \in BOOLEAN, sm \in SeeMoreStates, b \in BodyStates, l \in LikesStates,
        sp \in SeqsUpTo(SpanStates, MaxSpans)}

\* Post elements that vary in their media elements.
MediaPosts ==
    {[PlainPost EXCEPT !.media = m] : m \in SeqsUpTo(MediaElems, MaxMedia)}

\* Post elements that vary in their comment list.
CommentPosts ==
    {[PlainPost EXCEPT !.comments_button = b, !.comments = c] :
        b \in ButtonStates, c \in SeqsUpTo(CommentElems, MaxCommentElems)}

PostDoms == TextPosts \cup MediaPosts \cup CommentPosts

\* ------------------------------------------------------------------------
\* Outcomes of a call
\* ------------------------------------------------------------------------
Ok(v) == [exc |-> "none", value |-> v]

Raise(e) == [exc |-> e, value |-> <<>>]

\* ------------------------------------------------------------------------
\* _extract_media_urls
\* ------------------------------------------------------------------------
\* post.find_elements(By.CSS_SELECTOR, f'{element_type}.{class_name}'):
\* the matching elements in document order.
FindMedia(post, element_type, class_name) ==
    SelectSeq(post.media, LAMBDA e : e.tag = element_type /\ e.cls = class_name)

\* if src and not src.endswith('data:image/gif;base64')
KeepSrc(src) == src # <<>> /\ ~EndsWith(src, PLACEHOLDER_STUB)

\* The inner loop over the elements of one class: urls so far, or the
\* exception get_attribute raised.
RECURSIVE MediaLoop(_, _)
MediaLoop(elements, urls) ==
    IF elements = <<>> THEN Ok(urls)
    ELSE LET src == Head(elements).src IN
         CASE src.k = "stale" -> Raise("StaleElementReference")
           [] src.k = "none" -> MediaLoop(Tail(elements), urls)
           [] OTHER ->
                MediaLoop(Tail(elements),
                          IF KeepSrc(src.v) THEN Append(urls, src.v) ELSE urls)

RECURSIVE MediaClasses(_, _, _, _)
MediaClasses(post, element_type, class_names, urls) ==
    IF class_names = <<>> THEN Ok(urls)
    ELSE LET r == MediaLoop(FindMedia(post, element_type, Head(class_names)), urls) IN
         IF r.exc # "none" THEN r
         ELSE MediaClasses(post, element_type, Tail(class_names), r.value)

\* Only NoSuchElementException is caught; find_elements on a post element
\* that has left the page raises StaleElementReferenceException.
extract_media_urls(post, element_type, class_names) ==
    IF post.gone THEN Raise("StaleElementReference")
    ELSE MediaClasses(post, element_type, class_names, <<>>)

\* ------------------------------------------------------------------------
\* _extract_comments
\* ------------------------------------------------------------------------
\* A slice that is one too long: [:self.max_comments + 1].
SliceTo_inclusive(s, n) == SubSeq(s, 1, IF n + 1 < Len(s) THEN n + 1 ELSE Len(s))

\* [:self.max_comments] for max_comments >= 0
SliceTo(s, n) == SubSeq(s, 1, IF n < Len(s) THEN n ELSE Len(s))

\* The loop over the retained comment blocks.
RECURSIVE CommentLoop(_, _)
CommentLoop(comment_blocks, extracted_comments) ==
    IF comment_blocks = <<>> THEN Ok(extracted_comments)
    ELSE LET comment == Head(comment_blocks) IN
         CASE comment.text.k = "absent" ->
                CommentLoop(Tail(comment_blocks), extracted_comments)
           [] comment.text.k = "stale" -> Raise("StaleElementReference")
           [] comment.like.k = "stale" -> Raise("StaleElementReference")
           [] OTHER ->
                CommentLoop(Tail(comment_blocks),
                    Append(extracted_comments,
                           [comment_text |-> Strip(comment.text.v),
                            likes |-> IF comment.like.k = "absent" THEN ZERO
                                      ELSE Strip(comment.like.v)]))

\* Lines 274-308 for a post whose load-more control is absent at the first
\* lookup (the lookups and clicks of lines 281-287 are the steps of
\* SpecComments).
extract_comments(post, max_comments) ==
    CASE post.gone -> Raise("StaleElementReference")
      [] post.comments_button = "absent" -> Ok(<<>>)
      [] post.comments_button = "stale" -> Raise("StaleElementReference")
      [] OTHER -> CommentLoop(SliceTo(post.comments, max_comments), <<>>)

\* ------------------------------------------------------------------------
\* _extract_post_data
\* ------------------------------------------------------------------------
\* A body read whose NoSuchElementException is not caught.
PostText_abort(post) ==
    CASE post.gone -> Raise("StaleElementReference")
      [] post.see_more = "stale" -> Raise("StaleElementReference")
      [] post.body.k = "absent" -> Raise("NoSuchElement")
      [] post.body.k = "stale" -> Raise("StaleElementReference")
      [] OTHER -> Ok(Strip(post.body.v))

\* Lines 212-226: the see-more click and the body read.
PostText(post) ==
    CASE post.gone -> Raise("StaleElementReference")
      [] post.see_more = "stale" -> Raise("StaleElementReference")
      [] post.body.k = "absent" -> Ok(SENTINEL)
      [] post.body.k = "stale" -> Raise("StaleElementReference")
      [] OTHER -> Ok(Strip(post.body.v))

\* A like count whose default is the empty string.
PostLikes_empty_default(post) ==
    CASE post.gone -> Raise("StaleElementReference")
      [] post.likes.k = "absent" -> Ok(<<>>)
      [] post.likes.k = "stale" -> Raise("StaleElementReference")
      [] OTHER -> Ok(Strip(post.likes.v))

\* Lines 228-233: the like count.
PostLikes(post) ==
    CASE post.gone -> Raise("StaleElementReference")
      [] post.likes.k = "absent" -> Ok(ZERO)
      [] post.likes.k = "stale" -> Raise("StaleElementReference")
      [] OTHER -> Ok(Strip(post.likes.v))

\* A scan in which the first matching span wins: a field already set is kept.
RECURSIVE ScanSpans_first_wins(_, _)
ScanSpans_first_wins(dynamic_spans, counts) ==
    IF dynamic_spans = <<>> THEN counts
    ELSE LET span == Head(dynamic_spans) IN
         IF span.k = "stale" THEN counts
         ELSE LET text == Lower(Strip(span.v)) IN
              ScanSpans_first_wins(Tail(dynamic_spans),
                  IF Contains(text, KW_COMMENT)
                  THEN IF counts.comments = ZERO
                       THEN [counts EXCEPT !.comments = DigitsOrZero(text)] ELSE counts
                  ELSE IF Contains(text, KW_SHARE) \/ Contains(text, KW_REPOST)
                  THEN IF counts.shares = ZERO
                       THEN [counts EXCEPT !.shares = DigitsOrZero(text)] ELSE counts
                  ELSE counts)

\* Lines 241-246: the loop over the aria-hidden spans; an exception ends the
\* loop and keeps what was assigned so far (except Exception, line 247).
RECURSIVE ScanSpans(_, _)
ScanSpans(dynamic_spans, counts) ==
    IF dynamic_spans = <<>> THEN counts
    ELSE LET span == Head(dynamic_spans) IN
         IF span.k = "stale" THEN counts
         ELSE LET text == Lower(Strip(span.v)) IN
              ScanSpans(Tail(dynamic_spans),
                  IF Contains(text, KW_COMMENT)
                  THEN [counts EXCEPT !.comments = DigitsOrZero(text)]
                  ELSE IF Contains(text, KW_SHARE) \/ Contains(text, KW_REPOST)
                  THEN [counts EXCEPT !.shares = DigitsOrZero(text)]
                  ELSE counts)

\* Lines 235-248.
PostCounts(post) ==
    LET zero == [comments |-> ZERO, shares |-> ZERO] IN
    IF post.gone THEN zero ELSE ScanSpans(post.spans, zero)

extract_post_data(post, max_comments) ==
    LET text == PostText(post)
        likes == PostLikes(post)
        counts == PostCounts(post)
        images == extract_media_urls(post, "img", IMG_CLASSES)
        videos == extract_media_urls(post, "video", VIDEO_CLASSES)
        comments == extract_comments(post, max_comments)
    IN  CASE text.exc # "none" -> text
          [] likes.exc # "none" -> likes
          [] images.exc # "none" -> images
          [] videos.exc # "none" -> videos
          [] comments.exc # "none" -> comments
          [] OTHER ->
               Ok([post_text |-> text.value, likes |-> likes.value,
                   comments |-> counts.comments, shares |-> counts.shares,
                   image_urls |-> images.value, video_urls |-> videos.value,
                   top_comments |-> comments.value])

\* ------------------------------------------------------------------------
\* State
\* ------------------------------------------------------------------------
VARIABLES
    post,           \* the post element a helper is applied to
    max_comments,   \* self.max_comments
    call,           \* the helper applied to post, "none" before the call
    ret,            \* the outcome of that call / of the per-post try block
    pc,             \* where the run is
    entry,          \* who runs: the /scrape endpoint or a direct caller
    auto_save,      \* the auto_save argument of scrape_company_posts
    browser,        \* self.browser: "None" or "live"
    acquired,       \* webdriver.Chrome(...) has returned a session
    quit_calls,     \* calls of self.browser.quit()
    login_ret,      \* what login() returned
    num_scrolls,    \* self.num_scrolls
    stall_after,    \* the page: the number of scrolls that still grow it
    page_height,    \* document.body.scrollHeight
    last_height,    \* last_height of the scroll loop
    scrolls,        \* scroll-to-bottom actions performed
    matches,        \* the page: per selector, the elements it matches
    post_elements,  \* post_elements after deduplication
    idx,            \* post elements the per-post loop has taken
    posts,          \* result["posts"]
    kept,           \* the elements whose records are in posts, in order
    sink,           \* what save_posts was handed
    resp,           \* what the run answered
    cp,             \* where a stepwise call of _extract_comments is
    load_more,      \* what the last lookup of the load-more control found
    lookups,        \* lookups of the load-more control (line 283)
    button_clicks,  \* clicks issued on the comments button (line 278)
    load_clicks,    \* clicks issued on the load-more control (line 284)
    reads,          \* comment blocks read (lines 292-305)
    extracted_comments  \* extracted_comments of _extract_comments

harness == <<post, max_comments, call, ret>>

session == <<browser, acquired, quit_calls, login_ret>>

feed == <<num_scrolls, stall_after, page_height, last_height, scrolls, matches, post_elements>>

loop == <<idx, posts, kept>>

paginator == <<cp, load_more, lookups, button_clicks, load_clicks, reads, extracted_comments>>

vars == <<harness, pc, entry, auto_save, session, feed, loop, sink, resp, paginator>>

NoResp == [kind |-> "none", err |-> "", data |-> <<>>]

\* The run's variables before a run starts.
RunIdle ==
    /\ pc = "idle"
    /\ entry = "none"
    /\ auto_save = TRUE
    /\ browser = "None"
    /\ acquired = FALSE
    /\ quit_calls = 0
    /\ login_ret = FALSE
    /\ num_scrolls = 0
    /\ stall_after = 0
    /\ page_height = 0
    /\ last_height = 0
    /\ scrolls = 0
    /\ matches = <<>>
    /\ post_elements = <<>>
    /\ idx = 0
    /\ posts = <<>>
    /\ kept = <<>>
    /\ sink = <<>>
    /\ resp = NoResp

run == <<pc, entry, auto_save, session, feed, loop, sink, resp>>

\* The stepwise call's variables with the call at position at.
PaginatorAt(at) ==
    /\ cp = at
    /\ load_more = "none"
    /\ lookups = 0
    /\ button_clicks = 0
    /\ load_clicks = 0
    /\ reads = 0
    /\ extracted_comments = <<>>

\* ------------------------------------------------------------------------
\* The helpers applied to one post element
\* ------------------------------------------------------------------------
InitPost ==
    /\ post \in PostDoms
    /\ max_comments \in 0..MaxCommentsCfg
    /\ call = "none"
    /\ ret = Ok(<<>>)
    /\ RunIdle
    /\ PaginatorAt("idle")

CallExtractPostData ==
    /\ call = "none"
    /\ call' = "post_data"
    /\ ret' = extract_post_data(post, max_comments)
    /\ UNCHANGED <<post, max_comments, run, paginator>>

CallExtractImages ==
    /\ call = "none"
    /\ call' = "img"
    /\ ret' = extract_media_urls(post, "img", IMG_CLASSES)
    /\ UNCHANGED <<post, max_comments, run, paginator>>

CallExtractVideos ==
    /\ call = "none"
    /\ call' = "video"
    /\ ret' = extract_media_urls(post, "video", VIDEO_CLASSES)
    /\ UNCHANGED <<post, max_comments, run, paginator>>

CallExtractComments ==
    /\ call = "none"
    /\ call' = "comments"
    /\ ret' = extract_comments(post, max_comments)
    /\ UNCHANGED <<post, max_comments, run, paginator>>

NextPost ==
    \/ CallExtractPostData
    \/ CallExtractImages
    \/ CallExtractVideos
    \/ CallExtractComments

SpecPost == InitPost /\ [][NextPost]_vars

\* ------------------------------------------------------------------------
\* _extract_comments, one Selenium call at a time
\* ------------------------------------------------------------------------
\* The comment blocks a stepwise call meets: readable, without the text
\* span, and removed from the page before it is read.
PaginatorComments ==
    {[text |-> Txt(CommentA), like |-> Absent],
     [text |-> Txt(CommentB), like |-> Txt(CommentLikes)],
     [text |-> Absent, like |-> Absent],
     [text |-> Stale, like |-> Absent]}

\* The post elements a stepwise call is applied to.
PaginatorPosts ==
    {[PlainPost EXCEPT !.gone = g, !.likes = l, !.comments_button = b, !.comments = c] :
        g \in BOOLEAN, l \in {Absent, Stale}, b \in ButtonStates,
        c \in SeqsUpTo(PaginatorComments, MaxCommentElems)}

InitComments ==
    /\ post \in PaginatorPosts
    /\ max_comments \in 0..MaxCommentsCfg
    /\ call = "none"
    /\ ret = Ok(<<>>)
    /\ RunIdle
    /\ PaginatorAt("start")

\* A call in which a missing comments button does not end the call: the
\* load-more loop is entered all the same.
OpenComments_enters ==
    /\ cp = "start"
    /\ call' = "comments"
    /\ CASE post.gone ->
              /\ cp' = "raised"
              /\ ret' = Raise("StaleElementReference")
              /\ UNCHANGED button_clicks
         [] post.comments_button = "absent" ->
              /\ cp' = "expanding"
              /\ UNCHANGED <<ret, button_clicks>>
         [] post.comments_button = "stale" ->
              /\ cp' = "raised"
              /\ ret' = Raise("StaleElementReference")
              /\ button_clicks' = button_clicks + 1
         [] OTHER ->
              /\ cp' = "expanding"
              /\ button_clicks' = button_clicks + 1
              /\ UNCHANGED ret
    /\ UNCHANGED <<post, max_comments, run, load_more, lookups, load_clicks, reads,
                   extracted_comments>>

\* Lines 277-279: the comments button is looked up and clicked. A missing
\* button ends the call with [] (lines 307-308); a post that has left the
\* page, or a button that leaves it before the click, raises.
OpenComments ==
    /\ cp = "start"
    /\ call' = "comments"
    /\ CASE post.gone ->
              /\ cp' = "raised"
              /\ ret' = Raise("StaleElementReference")
              /\ UNCHANGED button_clicks
         [] post.comments_button = "absent" ->
              /\ cp' = "returned"
              /\ ret' = Ok(<<>>)
              /\ UNCHANGED button_clicks
         [] post.comments_button = "stale" ->
              /\ cp' = "raised"
              /\ ret' = Raise("StaleElementReference")
              /\ button_clicks' = button_clicks + 1
         [] OTHER ->
              /\ cp' = "expanding"
              /\ button_clicks' = button_clicks + 1
              /\ UNCHANGED ret
    /\ UNCHANGED <<post, max_comments, run, load_more, lookups, load_clicks, reads,
                   extracted_comments>>

\* Line 283: one lookup of the load-more control; the page has it or not.
\* NoSuchElementException leaves the loop (lines 286-287).
LookupLoadMore ==
    /\ cp = "expanding"
    /\ load_more = "none"
    /\ lookups < MaxLookups
    /\ lookups' = lookups + 1
    /\ \E present \in BOOLEAN :
         IF present
         THEN load_more' = "found" /\ UNCHANGED cp
         ELSE load_more' = "absent" /\ cp' = "extracting"
    /\ UNCHANGED <<harness, run, button_clicks, load_clicks, reads, extracted_comments>>

\* Lines 284-285: the click on the control the lookup found. The control may
\* have left the page since; that StaleElementReferenceException is caught
\* neither by line 286 nor by line 307.
ClickLoadMore ==
    /\ cp = "expanding"
    /\ load_more = "found"
    /\ load_clicks' = load_clicks + 1
    /\ \E click_ok \in BOOLEAN :
         IF click_ok
         THEN load_more' = "none" /\ UNCHANGED <<cp, ret>>
         ELSE /\ cp' = "raised"
              /\ ret' = Raise("StaleElementReference")
              /\ UNCHANGED load_more
    /\ UNCHANGED <<post, max_comments, call, run, lookups, button_clicks, reads,
                   extracted_comments>>

\* Lines 289-305: the next of the retained comment blocks is read.
ReadComment ==
    /\ cp = "extracting"
    /\ reads < Len(SliceTo(post.comments, max_comments))
    /\ reads' = reads + 1
    /\ LET comment == SliceTo(post.comments, max_comments)[reads + 1] IN
       CASE comment.text.k = "absent" -> UNCHANGED <<cp, ret, extracted_comments>>
         [] comment.text.k = "stale" \/ comment.like.k = "stale" ->
              /\ cp' = "raised"
              /\ ret' = Raise("StaleElementReference")
              /\ UNCHANGED extracted_comments
         [] OTHER ->
              /\ extracted_comments' =
                    Append(extracted_comments,
                           [comment_text |-> Strip(comment.text.v),
                            likes |-> IF comment.like.k = "absent" THEN ZERO
                                      ELSE Strip(comment.like.v)])
              /\ UNCHANGED <<cp, ret>>
    /\ UNCHANGED <<post, max_comments, call, run, load_more, lookups, button_clicks, load_clicks>>

\* Line 306.
ReturnComments ==
    /\ cp = "extracting"
    /\ reads = Len(SliceTo(post.comments, max_comments))
    /\ cp' = "returned"
    /\ ret' = Ok(extracted_comments)
    /\ UNCHANGED <<post, max_comments, call, run, load_more, lookups, button_clicks, load_clicks,
                   reads, extracted_comments>>

NextComments ==
    \/ OpenComments
    \/ LookupLoadMore
    \/ ClickLoadMore
    \/ ReadComment
    \/ ReturnComments

SpecComments == InitComments /\ [][NextComments]_vars

\* ------------------------------------------------------------------------
\* The run: scrape_linkedin, or a direct caller of the class
\* ------------------------------------------------------------------------
SELECTORS == <<"div.feed-shared-update-v2", "div.feed-shared-update", "div.feed-shared-article", "div.feed-shared-external-video", "div.feed-shared-text">>

\* The selectors (by position in SELECTORS) one element of the page matches.
ElemSelectorSets == {{}, {1}, {2}, {1, 2}, {2, 5}}

\* The post elements the per-post loop can meet.
RichPost ==
    [PlainPost EXCEPT !.likes = Txt(LikesPlain), !.spans = <<Txt(SpanComments)>>,
                      !.comments_button = "present",
                      !.comments = <<[text |-> Txt(CommentA), like |-> Absent]>>]

RunPosts ==
    {PlainPost, RichPost, [PlainPost EXCEPT !.gone = TRUE], [PlainPost EXCEPT !.body = Stale]}

\* save_posts is commented out (lines 322-334): the class has no such method.
HasSavePosts == FALSE

Init ==
    /\ post = PlainPost
    /\ max_comments \in {0, MaxCommentsCfg}
    /\ call = "none"
    /\ ret = Ok(<<>>)
    /\ pc = "start"
    /\ entry \in {"endpoint", "direct"}
    /\ auto_save \in (IF entry = "endpoint" THEN {TRUE} ELSE BOOLEAN)
    /\ browser = "None"
    /\ acquired = FALSE
    /\ quit_calls = 0
    /\ login_ret = FALSE
    /\ num_scrolls \in 0..MaxScrolls
    /\ stall_after \in 0..MaxStall
    /\ page_height = 0
    /\ last_height = 0
    /\ scrolls = 0
    /\ matches = <<>>
    /\ post_elements = <<>>
    /\ idx = 0
    /\ posts = <<>>
    /\ kept = <<>>
    /\ sink = <<>>
    /\ resp = NoResp
    /\ PaginatorAt("idle")

\* login(): webdriver.Chrome may fail, a later step of the form may fail
\* (the session then exists), or all of it succeeds.
Login ==
    /\ pc = "start"
    /\ \E outcome \in {"no_driver", "form_failed", "ok"} :
        /\ browser' = IF outcome = "no_driver" THEN "None" ELSE "live"
        /\ acquired' = (outcome # "no_driver")
        /\ login_ret' = (outcome = "ok")
    /\ pc' = "logged"
    /\ UNCHANGED <<harness, paginator, entry, auto_save, quit_calls, feed, loop, sink, resp>>

\* scrape_linkedin, lines 359-361.
LoginFailed ==
    /\ pc = "logged"
    /\ entry = "endpoint"
    /\ ~login_ret
    /\ resp' = [kind |-> "error", err |-> "Login failed", data |-> <<>>]
    /\ pc' = "finally"
    /\ UNCHANGED <<harness, paginator, entry, auto_save, session, feed, loop, sink>>

\* An exception leaves scrape_company_posts: the endpoint answers with an
\* error (lines 367-369), a direct caller sees it raised.
Propagate(e) ==
    /\ resp' = [kind |-> IF entry = "endpoint" THEN "error" ELSE "raised",
                err |-> e, data |-> <<>>]
    /\ pc' = IF entry = "endpoint" THEN "finally" ELSE "raised"

\* scrape_company_posts returns result (line 206); the endpoint answers with
\* success and the result (line 365).
Return ==
    /\ resp' = [kind |-> IF entry = "endpoint" THEN "success" ELSE "returned",
                err |-> "", data |-> posts]
    /\ pc' = IF entry = "endpoint" THEN "finally" ELSE "returned"

\* A scrape_company_posts without the precondition of lines 112-113: it goes
\* on to the navigation whatever self.browser is.
StartScrape_no_check ==
    /\ pc = "logged"
    /\ entry = "direct" \/ login_ret
    /\ \E nav_ok \in BOOLEAN :
         IF nav_ok
         THEN /\ page_height' = 1
              /\ last_height' = 1
              /\ pc' = "scroll"
              /\ UNCHANGED resp
         ELSE Propagate("WebDriverException") /\ UNCHANGED <<page_height, last_height>>
    /\ UNCHANGED <<harness, paginator, entry, auto_save, session, num_scrolls, stall_after, scrolls,
                   matches, post_elements, loop, sink>>

\* scrape_company_posts, lines 112-140: the precondition, the navigation
\* and the first read of the document height.
StartScrape ==
    /\ pc = "logged"
    /\ entry = "direct" \/ login_ret
    /\ IF browser = "None"
       THEN Propagate("RuntimeError") /\ UNCHANGED <<page_height, last_height>>
       ELSE \E nav_ok \in BOOLEAN :
              IF nav_ok
              THEN /\ page_height' = 1
                   /\ last_height' = 1
                   /\ pc' = "scroll"
                   /\ UNCHANGED resp
              ELSE Propagate("WebDriverException") /\ UNCHANGED <<page_height, last_height>>
    /\ UNCHANGED <<harness, paginator, entry, auto_save, session, num_scrolls, stall_after, scrolls,
                   matches, post_elements, loop, sink>>

\* The page after one more scroll to the bottom.
Scrolled(height, done) == IF done < stall_after THEN height + 1 ELSE height

\* A scroll loop without the count: while True, left only on an unchanged
\* height.
ScrollStep_unbounded ==
    /\ pc = "scroll"
    /\ LET new_height == Scrolled(page_height, scrolls) IN
       /\ page_height' = new_height
       /\ scrolls' = scrolls + 1
       /\ IF new_height = last_height
          THEN pc' = "discover" /\ UNCHANGED last_height
          ELSE pc' = "scroll" /\ last_height' = new_height
    /\ UNCHANGED <<harness, paginator, entry, auto_save, session, num_scrolls, stall_after,
                   matches, post_elements, loop, sink, resp>>

\* A scroll loop without the break on an unchanged height.
ScrollStep_no_break ==
    /\ pc = "scroll"
    /\ IF scrolls < num_scrolls
       THEN /\ page_height' = Scrolled(page_height, scrolls)
            /\ scrolls' = scrolls + 1
            /\ last_height' = page_height'
            /\ pc' = "scroll"
       ELSE pc' = "discover" /\ UNCHANGED <<page_height, scrolls, last_height>>
    /\ UNCHANGED <<harness, paginator, entry, auto_save, session, num_scrolls, stall_after,
                   matches, post_elements, loop, sink, resp>>

\* One iteration of the scroll loop (lines 141-151), or its end.
ScrollStep ==
    /\ pc = "scroll"
    /\ IF scrolls < num_scrolls
       THEN LET new_height == Scrolled(page_height, scrolls) IN
            /\ page_height' = new_height
            /\ scrolls' = scrolls + 1
            /\ IF new_height = last_height
               THEN pc' = "discover" /\ UNCHANGED last_height
               ELSE pc' = "scroll" /\ last_height' = new_height
       ELSE pc' = "discover" /\ UNCHANGED <<page_height, scrolls, last_height>>
    /\ UNCHANGED <<harness, paginator, entry, auto_save, session, num_scrolls, stall_after,
                   matches, post_elements, loop, sink, resp>>

\* find_elements(By.CSS_SELECTOR, selector): the matching elements of the
\* page in document order; classes[e] are the selectors element e matches.
FindPosts(classes, selector) ==
    SelectSeq([e \in DOMAIN classes |-> e], LAMBDA e : selector \in classes[e])

\* Lines 169-173: the matches of every selector, concatenated in order.
RECURSIVE ExtendAll(_, _, _)
ExtendAll(found, s, acc) ==
    IF s > Len(found) THEN acc
    ELSE ExtendAll(found, s + 1, IF found[s] # <<>> THEN acc \o found[s] ELSE acc)

\* No deduplication: the concatenated matches as they are.
Dedup_none(elements, seen) == elements

\* A deduplication that keeps the last occurrence of an element, not the first.
RECURSIVE Dedup_keep_last(_, _)
Dedup_keep_last(elements, seen) ==
    IF elements = <<>> THEN <<>>
    ELSE IF Head(elements) \in Range(Tail(elements))
    THEN Dedup_keep_last(Tail(elements), seen)
    ELSE <<Head(elements)>> \o Dedup_keep_last(Tail(elements), seen)

\* Lines 176-177: [x for x in post_elements if not (x in seen or seen.add(x))]
RECURSIVE Dedup(_, _)
Dedup(elements, seen) ==
    IF elements = <<>> THEN <<>>
    ELSE IF Head(elements) \in seen THEN Dedup(Tail(elements), seen)
    ELSE <<Head(elements)>> \o Dedup(Tail(elements), seen \cup {Head(elements)})

\* Lines 156-179: post discovery.
Discover ==
    /\ pc = "discover"
    /\ \E n \in 0..MaxElems : \E classes \in [1..n -> ElemSelectorSets] :
        LET found == [s \in 1..Len(SELECTORS) |-> FindPosts(classes, s)] IN
        /\ matches' = found
        /\ post_elements' = Dedup(ExtendAll(found, 1, <<>>), {})
    /\ pc' = "posts"
    /\ UNCHANGED <<harness, paginator, entry, auto_save, session, num_scrolls, stall_after,
                   page_height, last_height, scrolls, loop, sink, resp>>

\* The try block of the per-post loop (lines 184-195): scrollIntoView raises
\* for an element that has left the page, then the extractor runs.
TryPost(p) ==
    IF p.gone THEN Raise("StaleElementReference") ELSE extract_post_data(p, max_comments)

\* A per-post loop whose except clause ends the loop (break, not continue).
ProcessPost_break ==
    /\ pc = "posts"
    /\ idx < Len(post_elements)
    /\ \E p \in RunPosts :
        LET r == TryPost(p) IN
        /\ ret' = r
        /\ posts' = IF r.exc = "none" THEN Append(posts, r.value) ELSE posts
        /\ kept' = IF r.exc = "none" THEN Append(kept, post_elements[idx + 1]) ELSE kept
        /\ idx' = IF r.exc = "none" THEN idx + 1 ELSE Len(post_elements)
    /\ call' = "post_data"
    /\ UNCHANGED <<post, max_comments, paginator, pc, entry, auto_save, session, feed, sink, resp>>

\* One iteration of the per-post loop (lines 182-199). The scrollBy of line
\* 194 comes after the append: when it raises, the except clause of line 197
\* catches it and the record stays, which is the state of a success.
ProcessPost ==
    /\ pc = "posts"
    /\ idx < Len(post_elements)
    /\ \E p \in RunPosts :
        LET r == TryPost(p) IN
        /\ ret' = r
        /\ posts' = IF r.exc = "none" THEN Append(posts, r.value) ELSE posts
        /\ kept' = IF r.exc = "none" THEN Append(kept, post_elements[idx + 1]) ELSE kept
    /\ call' = "post_data"
    /\ idx' = idx + 1
    /\ UNCHANGED <<post, max_comments, paginator, pc, entry, auto_save, session, feed, sink, resp>>

\* After the loop (lines 201-206): the auto-save and the return.
Finish ==
    /\ pc = "posts"
    /\ idx = Len(post_elements)
    /\ IF auto_save
       THEN IF HasSavePosts
            THEN sink' = Append(sink, posts) /\ Return
            ELSE Propagate("AttributeError") /\ UNCHANGED sink
       ELSE Return /\ UNCHANGED sink
    /\ UNCHANGED <<harness, paginator, entry, auto_save, session, feed, loop>>

\* A close() that runs at the end of the try block only, not in a finally.
Finally_success_only ==
    /\ pc = "finally"
    /\ IF browser = "live" /\ resp.kind = "success"
       THEN \E quit_ok \in BOOLEAN :
              /\ quit_calls' = quit_calls + 1
              /\ browser' = IF quit_ok THEN "None" ELSE "live"
              /\ pc' = IF quit_ok THEN "returned" ELSE "raised"
       ELSE pc' = "returned" /\ UNCHANGED <<browser, quit_calls>>
    /\ UNCHANGED <<harness, paginator, entry, auto_save, acquired, login_ret, feed, loop, sink, resp>>

\* scrape_linkedin's finally (lines 371-372) and close() (lines 336-340);
\* quit() itself may raise, and then nothing is returned.
Finally ==
    /\ pc = "finally"
    /\ IF browser = "live"
       THEN \E quit_ok \in BOOLEAN :
              /\ quit_calls' = quit_calls + 1
              /\ browser' = IF quit_ok THEN "None" ELSE "live"
              /\ pc' = IF quit_ok THEN "returned" ELSE "raised"
       ELSE pc' = "returned" /\ UNCHANGED <<browser, quit_calls>>
    /\ UNCHANGED <<harness, paginator, entry, auto_save, acquired, login_ret, feed, loop, sink, resp>>

Next ==
    \/ Login
    \/ LoginFailed
    \/ StartScrape
    \/ ScrollStep
    \/ Discover
    \/ ProcessPost
    \/ Finish
    \/ Finally

Spec == Init /\ [][Next]_vars

\* ------------------------------------------------------------------------
\* Properties
\* ------------------------------------------------------------------------
\* C1: for a post element that is still on the page, _extract_post_data
\* returns a record whatever single step fails with NotFound or ElementGone:
\* no exception leaves the extractor.
C1_ExtractorNeverRaises ==
    (call = "post_data" /\ ~post.gone) => ret.exc = "none"

\* C2: an iteration of the per-post loop whose try block fails leaves posts
\* unchanged, one that succeeds appends exactly its record; either way the
\* loop goes on to the next element, and it ends only when every discovered
\* element has been attempted.
C2_FailureOmitsOnlyThatPost ==
    [][(pc = "posts") =>
         IF pc' = "posts"
         THEN /\ idx' = idx + 1
              /\ IF ret'.exc = "none"
                 THEN /\ posts' = Append(posts, ret'.value)
                      /\ kept' = Append(kept, post_elements[idx + 1])
                 ELSE posts' = posts /\ kept' = kept
         ELSE idx = Len(post_elements) /\ posts' = posts]_vars

\* A run in which the first post failed and the second was still attempted
\* and recorded.
C2_Witness ==
    /\ pc = "posts"
    /\ Len(post_elements) = 2
    /\ idx = 2
    /\ kept = <<post_elements[2]>>
    /\ Len(posts) = 1

\* The per-post loop has ended and scrape_company_posts is over.
LoopFinished ==
    /\ Len(matches) = Len(SELECTORS)
    /\ idx = Len(post_elements)
    /\ pc \in {"finally", "returned", "raised"}

\* C3: with a session and the per-post loop finished, an auto-saving
\* scrape_company_posts hands the result to the sink and returns it; the
\* endpoint answers with success and the result.
C3_SavedAndReturned ==
    (LoopFinished /\ auto_save /\ pc \in {"finally", "returned"}) =>
        /\ resp.kind \in {"success", "returned"}
        /\ resp.data = posts
        /\ sink = <<posts>>

\* C4: when scrape_linkedin has returned, no session is live, and a session
\* that was acquired has been quit.
C4_SessionReleased ==
    (entry = "endpoint" /\ pc = "returned") =>
        /\ browser = "None"
        /\ acquired => quit_calls = 1

\* The run returned after a login that failed with the session already
\* created, and the session was quit.
C4_Witness ==
    /\ entry = "endpoint"
    /\ pc = "returned"
    /\ acquired
    /\ ~login_ret
    /\ quit_calls = 1
    /\ browser = "None"

\* C5: the comment list of every record produced, and every list
\* _extract_comments returns, has at most max_comments entries.
C5_CommentsBounded ==
    /\ (call = "post_data" /\ ret.exc = "none") =>
            Len(ret.value.top_comments) <= max_comments
    /\ (call = "comments" /\ ret.exc = "none") => Len(ret.value) <= max_comments

\* A post with more readable comments than max_comments, cut to max_comments.
C5_Witness ==
    /\ call = "post_data"
    /\ ret.exc = "none"
    /\ max_comments >= 1
    /\ Len(post.comments) > max_comments
    /\ Len(ret.value.top_comments) = max_comments

\* The record the claim expects of a comment element with readable text.
C6_Record(c) ==
    [comment_text |-> Strip(c.text.v),
     likes |-> IF c.like.k = "text" THEN Strip(c.like.v) ELSE ZERO]

\* The first min(max_comments, n) comment elements, in DOM order.
C6_Visited ==
    [i \in 1..(IF max_comments < Len(post.comments) THEN max_comments
               ELSE Len(post.comments)) |-> post.comments[i]]

\* One record per visited element with readable text, in DOM order.
C6_Expected ==
    LET readable == SelectSeq(C6_Visited, LAMBDA c : c.text.k = "text")
    IN  [i \in 1..Len(readable) |-> C6_Record(readable[i])]

\* C6: after expansion _extract_comments returns one record for each of the
\* first min(max_comments, n) comment elements whose text can be read, in DOM
\* order; an element whose read fails is skipped and the others are kept.
C6_FirstReadableInOrder ==
    (call = "comments" /\ ~post.gone /\ post.comments_button = "present") =>
        /\ ret.exc = "none"
        /\ ret.value = C6_Expected

\* The matches of the selectors, concatenated in selector order.
C7_Concat == matches[1] \o matches[2] \o matches[3] \o matches[4] \o matches[5]

C7_First(seq, x) == CHOOSE i \in 1..Len(seq) : seq[i] = x /\ \A j \in 1..(i - 1) : seq[j] # x

\* C7: post_elements holds every element some selector matches exactly once,
\* ordered by first occurrence in the concatenation of the selectors' matches.
C7_DedupFirstSeen ==
    (Len(matches) = Len(SELECTORS)) =>
        /\ Range(post_elements) = Range(C7_Concat)
        /\ \A i, j \in 1..Len(post_elements) :
              i < j => /\ post_elements[i] # post_elements[j]
                       /\ C7_First(C7_Concat, post_elements[i])
                            < C7_First(C7_Concat, post_elements[j])

\* Element 2 is matched by the first and by the second selector, element 1
\* by the second only: element 2 comes first, once.
C7_Witness ==
    /\ Len(matches) = Len(SELECTORS)
    /\ matches[1] = <<2>>
    /\ matches[2] = <<1, 2>>
    /\ post_elements = <<2, 1>>

\* C8: on a page that grows for the first N scrolls only, N < num_scrolls,
\* the scroll loop performs exactly N scroll-to-bottom actions.
C8_ExactlyNScrolls ==
    (pc = "discover" /\ stall_after < num_scrolls) => scrolls = stall_after

\* C8 as amended: the loop performs exactly N + 1 scroll-to-bottom actions,
\* the N that grow the page and the one whose unchanged height ends the loop.
C8_ExactlyNPlusOneScrolls ==
    (pc = "discover" /\ stall_after < num_scrolls) => scrolls = stall_after + 1

\* The page grew once, three scrolls were configured, two were performed.
C8_Witness ==
    /\ pc = "discover"
    /\ stall_after = 1
    /\ num_scrolls = 3
    /\ scrolls = 2

IsDigitString(s) == s # <<>> /\ \A i \in 1..Len(s) : IsDigit(s[i])

\* C9: every numeric field of a record produced (likes, comments, shares,
\* and each comment's like count) is a non-empty string of decimal digits.
C9_NumericFieldsAreDigits ==
    (call = "post_data" /\ ret.exc = "none") =>
        /\ IsDigitString(ret.value.likes)
        /\ IsDigitString(ret.value.comments)
        /\ IsDigitString(ret.value.shares)
        /\ \A i \in 1..Len(ret.value.top_comments) :
              IsDigitString(ret.value.top_comments[i].likes)

\* s.startswith(pre)
StartsWith(s, pre) == Len(pre) <= Len(s) /\ SubSeq(s, 1, Len(pre)) = pre

\* C10: _extract_media_urls never returns a URL that is the inline base64
\* GIF stub followed by its payload.
C10_NoPlaceholderReturned ==
    (call \in {"img", "video"} /\ ret.exc = "none") =>
        \A i \in 1..Len(ret.value) : ~StartsWith(ret.value[i], PLACEHOLDER_STUB)

\* The sentinel the specification names.
C11_Unextractable == <<"[", "u", "n", "e", "x", "t", "r", "a", "c", "t", "a", "b", "l", "e", "]">>

\* The sentinel of line 226.
C11_CouldNotExtract == <<"[", "C", "o", "u", "l", "d", " ", "n", "o", "t", " ", "e", "x", "t", "r", "a", "c", "t", " ", "p", "o", "s", "t", " ", "c", "o", "n", "t", "e", "n", "t", "]">>

\* The same post element with a readable body.
C11_WithReadableBody == extract_post_data([post EXCEPT !.body = Txt(BodyText)], max_comments)

\* C11: for a post whose body lookup signals NotFound the record's text is
\* the sentinel "[unextractable]".
C11_TextIsUnextractable ==
    (call = "post_data" /\ post.body.k = "absent" /\ ret.exc = "none") =>
        ret.value.post_text = C11_Unextractable

\* C11 as amended: the record's text is "[Could not extract post content]",
\* and the remaining steps run and fill their fields (or fail) exactly as
\* for the same post with a readable body.
C11_SentinelAndOtherFields ==
    (call = "post_data" /\ post.body.k = "absent") =>
        /\ ret.exc = C11_WithReadableBody.exc
        /\ ret.exc = "none" =>
             /\ ret.value.post_text = C11_CouldNotExtract
             /\ [ret.value EXCEPT !.post_text = <<>>]
                  = [C11_WithReadableBody.value EXCEPT !.post_text = <<>>]

\* A post without a body, with a like count and a comment count.
C11_Witness ==
    /\ call = "post_data"
    /\ post.body.k = "absent"
    /\ ret.exc = "none"
    /\ ret.value.post_text = C11_CouldNotExtract
    /\ ret.value.likes = LikesPlain
    /\ ret.value.comments = <<"3">>

\* A span whose lower-cased text contains the word.
C12_Mentions(span, word) == span.k = "text" /\ Contains(Lower(span.v), word)

\* C12: without a reaction-count control likes is "0"; without a span that
\* mentions "comment" comments is "0"; without a span that mentions "share"
\* or "repost" shares is "0".
C12_DefaultsAreZero ==
    (call = "post_data" /\ ret.exc = "none") =>
        /\ post.likes.k = "absent" => ret.value.likes = <<"0">>
        /\ (\A i \in 1..Len(post.spans) : ~C12_Mentions(post.spans[i], KW_COMMENT))
              => ret.value.comments = <<"0">>
        /\ (\A i \in 1..Len(post.spans) :
                ~C12_Mentions(post.spans[i], KW_SHARE) /\ ~C12_Mentions(post.spans[i], KW_REPOST))
              => ret.value.shares = <<"0">>

\* A post with a repost count only: likes and comments are "0", shares is not.
C12_Witness ==
    /\ call = "post_data"
    /\ ret.exc = "none"
    /\ post.likes.k = "absent"
    /\ post.spans = <<Txt(SpanReposts)>>
    /\ ret.value.likes = <<"0">>
    /\ ret.value.comments = <<"0">>
    /\ ret.value.shares = <<"5">>

\* The spans the scan reads: those before the first span whose text cannot
\* be read.
C18_Scanned ==
    LET bad == {i \in 1..Len(post.spans) : post.spans[i].k = "stale"}
        n == IF bad = {} THEN Len(post.spans)
             ELSE (CHOOSE i \in bad : \A j \in bad : i <= j) - 1
    IN  [i \in 1..n |-> Lower(Strip(post.spans[i].v))]

\* The leading digit run of a text, "0" when it is empty.
RECURSIVE C18_LeadingRun(_)
C18_LeadingRun(s) ==
    IF s = <<>> \/ Head(s) \notin DIGITS THEN <<>>
    ELSE <<Head(s)>> \o C18_LeadingRun(Tail(s))

C18_LeadingRunOrZero(s) == IF C18_LeadingRun(s) = <<>> THEN <<"0">> ELSE C18_LeadingRun(s)

\* All the decimal digits of a text, "0" when there are none.
C18_AllDigitsOrZero(s) ==
    LET d == SelectSeq(s, LAMBDA c : c \in DIGITS) IN IF d = <<>> THEN <<"0">> ELSE d

C18_IsComment(s) == Contains(s, KW_COMMENT)

C18_IsShare(s) == Contains(s, KW_SHARE) \/ Contains(s, KW_REPOST)

\* The last of a set of indices, 0 when there is none.
C18_Last(hits) == IF hits = {} THEN 0 ELSE CHOOSE i \in hits : \A j \in hits : j <= i

\* A span that sets shares: it contains "share" or "repost" and not "comment".
C18_SetsShares(s) == C18_IsShare(s) /\ ~C18_IsComment(s)

C18_LastComment == C18_Last({i \in 1..Len(C18_Scanned) : C18_IsComment(C18_Scanned[i])})

C18_LastShare == C18_Last({i \in 1..Len(C18_Scanned) : C18_IsShare(C18_Scanned[i])})

C18_LastSetsShares == C18_Last({i \in 1..Len(C18_Scanned) : C18_SetsShares(C18_Scanned[i])})

\* C18: comments is the leading digit run of the last span that contains
\* "comment", shares that of the last span that contains "share" or "repost"
\* (stated for posts all of whose spans can be read).
C18_LeadingRunOfLastMatch ==
    (call = "post_data" /\ ret.exc = "none" /\ Len(C18_Scanned) = Len(post.spans)) =>
        LET c == C18_LastComment
            s == C18_LastShare
        IN  /\ c > 0 => ret.value.comments = C18_LeadingRunOrZero(C18_Scanned[c])
            /\ s > 0 => ret.value.shares = C18_LeadingRunOrZero(C18_Scanned[s])

\* C18 as amended: among the spans read before the first unreadable one,
\* comments is all the digits of the last span that contains "comment", and
\* shares all the digits of the last span that contains "share" or "repost"
\* and not "comment"; "0" where the span has no digit or no span matches.
C18_AllDigitsOfLastMatch ==
    (call = "post_data" /\ ret.exc = "none") =>
        LET c == C18_LastComment
            s == C18_LastSetsShares
        IN  /\ ret.value.comments =
                  IF c > 0 THEN C18_AllDigitsOrZero(C18_Scanned[c]) ELSE <<"0">>
            /\ ret.value.shares =
                  IF s > 0 THEN C18_AllDigitsOrZero(C18_Scanned[s]) ELSE <<"0">>

\* Two comment spans: the later one, "1,204 Comments", gives "1204".
C18_Witness ==
    /\ call = "post_data"
    /\ ret.exc = "none"
    /\ post.spans = <<Txt(SpanComments), Txt(SpanCommentsUpper)>>
    /\ ret.value.comments = <<"1", "2", "0", "4">>

\* Nothing of the scrape has happened: no navigation, no scroll, no element
\* query, no record and no sink call.
C13_NothingScraped(height, scrolled, found, elems, taken, records, saved) ==
    /\ height = 0
    /\ scrolled = 0
    /\ found = <<>>
    /\ elems = <<>>
    /\ taken = 0
    /\ records = <<>>
    /\ saved = <<>>

\* C13: scrape_company_posts called with no browser raises RuntimeError with
\* nothing done to the page or the sink; scrape_linkedin after a failed login
\* answers with the error "Login failed", scrape_company_posts is not entered,
\* and login() is not called a second time.
C13_NoSessionIsFatal ==
    [][/\ (pc = "logged" /\ browser = "None" /\ (entry = "direct" \/ login_ret)) =>
            /\ pc' = (IF entry = "endpoint" THEN "finally" ELSE "raised")
            /\ resp'.err = "RuntimeError"
            /\ C13_NothingScraped(page_height', scrolls', matches', post_elements', idx',
                                  posts', sink')
       /\ (pc = "logged" /\ entry = "endpoint" /\ ~login_ret) =>
            /\ pc' = "finally"
            /\ resp' = [kind |-> "error", err |-> "Login failed", data |-> <<>>]
       /\ (entry = "endpoint" /\ ~login_ret /\ pc # "start") =>
            C13_NothingScraped(page_height', scrolls', matches', post_elements', idx',
                               posts', sink')
       /\ (pc # "start") => UNCHANGED <<login_ret, acquired>>]_vars

\* A direct caller that called scrape_company_posts with no browser.
C13_Witness ==
    /\ entry = "direct"
    /\ browser = "None"
    /\ pc = "raised"
    /\ resp.err = "RuntimeError"
    /\ page_height = 0
    /\ sink = <<>>

\* C14: a fault of the run after at least one record has been accumulated
\* still hands the accumulated records to the caller.
C14_PartialResultReturned ==
    (Len(posts) >= 1 /\ resp.kind \in {"error", "raised"}) => resp.data = posts

\* C15: with early termination disabled the scroll loop performs exactly
\* num_scrolls scrolls even on a page that has stopped growing. The constructor
\* (lines 39-48) takes no such option, so this is stated of every
\* configuration the code accepts.
C15_FullScrollCount ==
    (pc = "discover") => scrolls = num_scrolls

\* C19: the scroll loop performs at most num_scrolls scrolls (none for
\* num_scrolls = 0): every step of the loop is one more scroll or the end of
\* the loop, the loop ends in post discovery whether the page stalled or the
\* count ran out, and no error is answered.
C19_ScrollLoopBounded ==
    [][(pc = "scroll") =>
         /\ scrolls' <= num_scrolls
         /\ pc' \in {"scroll", "discover"}
         /\ (pc' = "scroll") => (scrolls' = scrolls + 1 /\ page_height' # last_height)
         /\ (pc' = "discover") =>
                /\ \/ scrolls' = scrolls /\ scrolls = num_scrolls
                   \/ scrolls' = scrolls + 1 /\ page_height' = last_height
                /\ (ENABLED Discover)'
         /\ (scrolls = num_scrolls) => (pc' = "discover" /\ scrolls' = scrolls)
         /\ resp' = NoResp]_vars

\* A loop that ended by stagnation before the count ran out, and discovery ran.
C19_Witness ==
    /\ pc = "posts"
    /\ num_scrolls = MaxScrolls
    /\ scrolls < num_scrolls
    /\ page_height = last_height
    /\ Len(matches) = Len(SELECTORS)
    /\ resp = NoResp

\* The position of element x in post_elements.
C20_Position(x) == CHOOSE i \in 1..Len(post_elements) : post_elements[i] = x

\* C20: no element occurs twice in post_elements, so the per-post loop, which
\* takes the positions 1..idx once each, passes no element to the extractor
\* twice; the records are in the order of their elements; and there are never
\* more records than elements taken, nor more elements taken than discovered.
C20_AtMostOnceInOrder ==
    /\ \A i, j \in 1..Len(post_elements) : post_elements[i] = post_elements[j] => i = j
    /\ idx <= Len(post_elements)
    /\ Len(posts) = Len(kept)
    /\ Len(posts) <= idx
    /\ \A i \in 1..Len(kept) :
         /\ kept[i] \in {post_elements[k] : k \in 1..idx}
         /\ \A j \in (i + 1)..Len(kept) : C20_Position(kept[i]) < C20_Position(kept[j])

\* Two elements that several selectors matched, each taken once and recorded.
C20_Witness ==
    /\ pc = "posts"
    /\ Len(C7_Concat) > Len(post_elements)
    /\ Len(post_elements) = 2
    /\ idx = 2
    /\ kept = post_elements
    /\ Len(posts) = 2

\* One step of the Comment Paginator as C16 has it.
C16_Step ==
    /\ (cp = "expanding" /\ cp' # "expanding") =>
            (cp' = "extracting" /\ load_more' = "absent" /\ lookups' = lookups + 1)
    /\ (cp = "expanding" /\ load_more' = "absent") => cp' = "extracting"
    /\ (cp = "expanding" /\ load_more' = "found") => cp' = "expanding"
    /\ (load_clicks' # load_clicks) => (load_more = "found" /\ load_clicks' = load_clicks + 1)
    /\ (reads' # reads) => (load_more = "absent" /\ cp = "extracting")
    /\ (load_more = "absent") => (load_clicks' = load_clicks /\ lookups' = lookups)
    /\ (cp = "extracting") => cp' \in {"extracting", "returned"}

\* C16: the paginator leaves EXPANDING only by a lookup that finds the
\* load-more control absent, and then goes to EXTRACTING and returns; a click
\* follows a lookup that found the control, no comment block is read before a
\* lookup found it absent and no click comes after; while the control is
\* found the paginator stays in EXPANDING.
C16_LeavesExpandingOnAbsentOnly == [][C16_Step]_vars

\* The steps of _extract_post_data other than the comment extraction succeed.
C17_OtherStepsSucceed ==
    /\ PostText(post).exc = "none"
    /\ PostLikes(post).exc = "none"
    /\ extract_media_urls(post, "img", IMG_CLASSES).exc = "none"
    /\ extract_media_urls(post, "video", VIDEO_CLASSES).exc = "none"

\* C17: with the comments button missing, _extract_comments returns [] at
\* once: no click, no lookup of the load-more control, no read of a comment
\* block; and the post's record is produced with top_comments = [] (as long
\* as no other step of _extract_post_data raises).
C17_NoButtonShortCircuits ==
    (cp # "start" /\ ~post.gone /\ post.comments_button = "absent") =>
        /\ cp = "returned"
        /\ ret = Ok(<<>>)
        /\ button_clicks = 0
        /\ load_clicks = 0
        /\ lookups = 0
        /\ reads = 0
        /\ LET r == extract_post_data(post, max_comments) IN
           IF C17_OtherStepsSucceed
           THEN r.exc = "none" /\ r.value.top_comments = <<>>
           ELSE r.exc # "none"

\* A post with comment blocks on the page and no comments button.
C17_Witness ==
    /\ cp = "returned"
    /\ ~post.gone
    /\ post.comments_button = "absent"
    /\ Len(post.comments) >= 1
    /\ max_comments >= 1
    /\ post.likes = Absent
    /\ ret = Ok(<<>>)

====
